---- MODULE Spec2Model ----
(***************************************************************************)
(* Model of the cache-backed retrieval pipeline of src/bot.py: the video   *)
(* cache directory, the two eviction passes (clean_old_files,              *)
(* clean_cache_by_size), the message handler handle_links with its         *)
(* suspension points, and the blocking call of the external downloader in  *)
(* download_video.                                                         *)
(*                                                                         *)
(* Time is counted in days (the unit of CACHE_EXPIRE_DAYS).  File sizes    *)
(* are counted in an abstract unit in which the Telegram limit             *)
(* MAX_FILE_SIZE is 2 and the cache cap MAX_CACHE_SIZE_GB is 3; only the   *)
(* order MAX_FILE_SIZE < cap of the two program constants is kept.         *)
(* st_mtime of a cache file is taken to be the day yt-dlp wrote it.        *)
(*                                                                         *)
(* Spec is one run of the bot handling MaxReq messages that carry NumUrls  *)
(* different links, SpecBusy the same run with one message and one link    *)
(* more, and SpecBoot the cache directory over restarts of the bot, from   *)
(* any directory content, with no messages.                                *)
(***************************************************************************)
EXTENDS Integers, Sequences, FiniteSets, TLC

\* ------------------------------------------------------------- constants
MAX_FILE_SIZE == 2
MAX_CACHE_SIZE_GB == 3
CACHE_EXPIRE_DAYS == 3

\* ---------------------------------------------------------------- bounds
MaxReq == 2        \* messages handled in one run of the bot (Spec)
NumUrls == 1       \* distinct supported links users send (Spec)
MaxTicks == 1      \* days the run lasts after the first start
MaxSize == MAX_FILE_SIZE + 1     \* sizes of artifacts: up to just over the limit
StartTime == CACHE_EXPIRE_DAYS + 1   \* the day of the first start
MaxTime == StartTime + MaxTicks

Reqs == 1..(MaxReq + 1)
NoReq == 0
Urls == 1..(NumUrls + 1)
NoUrl == 0
NoFile == [size |-> 0, mtime |-> 0 - 1, accessed |-> 0 - 1, whole |-> FALSE]

\* hashlib.md5(url).hexdigest(): deterministic and, on the URLs of the model,
\* collision free.
get_url_hash(url) == (3 * url) % 7

Keys == {get_url_hash(u) : u \in Urls}

VARIABLES
    phase,       \* position of on_startup: "boot", "aged", "polling"
    now,         \* datetime.now(), in days
    cache,       \* CACHE_DIR: key -> file or NoFile.  size, mtime and whole
                 \* (the file is a complete artifact) are the file's; accessed
                 \* records the day of its last publish or cache hit, which
                 \* the program keeps nowhere
    stuck,       \* entries of CACHE_DIR whose unlink raises
    quota,       \* messages that arrive in this run
    links,       \* the links those messages carry
    pc,          \* position of each handle_links invocation
    url,         \* extract_url(text) of each invocation
    wait_msg,    \* handle_links' local wait_msg is set
    proc,        \* the invocation blocked in subprocess.run, or NoReq
    bot_stats,   \* the counters of bot_stats
    \* ---- observations of the run, read by no guard
    launched,    \* per invocation: how many times it started yt-dlp
    failure,     \* per invocation: the exception its try block raised
    emitted,     \* per invocation: counter increments it caused
    early,       \* per invocation: accepted while its key had no file and no
                 \* subprocess.run had returned or raised yet
    fetched,     \* some subprocess.run has returned or raised
    fetchPre,    \* CACHE_DIR at the running invocation's call of download_video
    bootDir,     \* CACHE_DIR as clean_old_cache found it, until the size pass
    streak,      \* size passes in a row since the last write, hit or deletion (up to 2)
    firstEvicted,\* the first pass of the streak removed something
    lastEvicted, \* the latest size pass removed something
    \* ---- the classifier, taken alone (SpecClassify)
    text,        \* message.text or message.caption, as a sequence of fragments
    tagged       \* what handle_links made of it: the url and its platform

vars == <<phase, now, cache, stuck, quota, links, pc, url, wait_msg, proc, bot_stats,
          launched, failure, emitted, early, fetched, fetchPre,
          bootDir, streak, firstEvicted, lastEvicted, text, tagged>>

handlers == <<links, pc, url, wait_msg, proc, bot_stats, launched, failure, emitted,
              early, fetched, fetchPre>>

passes == <<bootDir, streak, firstEvicted, lastEvicted>>

classifier == <<text, tagged>>

\* ------------------------------------------------------- the classifier
\* A text is a sequence of fragments: the scheme, the five host/path
\* prefixes of url_pattern, the two domain names get_platform looks for,
\* written alone, a character that is part of none of them, and a space.
Scheme == "https://"
Hosts == {"vm.tiktok.com", "www.tiktok.com", "www.instagram.com/reel",
          "youtu.be", "youtube.com/shorts"}
Space == " "
Fragments == {Scheme, "tiktok.com", "instagram.com", "-", Space} \cup Hosts

MaxWords == 3      \* fragments in a text

Texts == UNION {[1..n -> Fragments] : n \in 1..MaxWords}

None == <<>>
NoTag == [url |-> None, platform |-> "none"]

\* The match of url_pattern that starts at fragment i: scheme, one of the
\* hosts, then \S+, i.e. at least one fragment that is no space.
MatchAt(t, i) ==
    /\ i + 2 <= Len(t)
    /\ t[i] = Scheme
    /\ t[i + 1] \in Hosts
    /\ t[i + 2] # Space

\* \S+ is greedy: the match runs up to the next space or the end of the text.
MatchEnd(t, i) ==
    CHOOSE j \in (i + 2)..Len(t) :
        /\ \A m \in (i + 2)..j : t[m] # Space
        /\ j = Len(t) \/ t[j + 1] = Space

\* re.search(url_pattern, text): the leftmost match, or None.
extract_url(t) ==
    IF \E i \in 1..Len(t) : MatchAt(t, i)
    THEN LET i == CHOOSE x \in 1..Len(t) :
                      MatchAt(t, x) /\ \A y \in 1..(x - 1) : ~MatchAt(t, y)
         IN SubSeq(t, i, MatchEnd(t, i))
    ELSE None

\* needle in u, for the needles of get_platform.
Mentions(u, needle) ==
    \E i \in 1..Len(u) :
        \/ u[i] = needle
        \/ needle = "tiktok.com" /\ u[i] \in {"vm.tiktok.com", "www.tiktok.com"}
        \/ needle = "instagram.com" /\ u[i] = "www.instagram.com/reel"

get_platform(u) ==
    IF Mentions(u, "tiktok.com") THEN "tiktok"
    ELSE IF Mentions(u, "instagram.com") THEN "instagram"
    ELSE IF Mentions(u, "youtube.com/shorts") \/ Mentions(u, "youtu.be") THEN "youtube"
    ELSE "other"

\* ------------------------------------------------------- the cache files
EmptyDir == [k \in Keys |-> NoFile]

File(size, mtime) == [size |-> size, mtime |-> mtime, accessed |-> mtime, whole |-> TRUE]

Exists(c, k) == c[k] # NoFile

Glob(c) == {k \in Keys : Exists(c, k)}

RECURSIVE SumSizes(_, _)
SumSizes(c, ks) ==
    IF ks = {} THEN 0
    ELSE LET k == CHOOSE x \in ks : TRUE IN c[k].size + SumSizes(c, ks \ {k})

TotalSize(c) == SumSizes(c, Glob(c))

\* sorted(CACHE_DIR.glob("*"), key=st_mtime): stable, the directory order of
\* glob being the order of the keys.
RECURSIVE SortByMtime(_, _)
SortByMtime(c, ks) ==
    IF ks = {} THEN <<>>
    ELSE LET k == CHOOSE x \in ks : \A y \in ks :
                      \/ c[x].mtime < c[y].mtime
                      \/ c[x].mtime = c[y].mtime /\ x <= y
         IN <<k>> \o SortByMtime(c, ks \ {k})

\* CACHE_DIR.glob("*") in directory order.
RECURSIVE GlobSeq(_)
GlobSeq(ks) ==
    IF ks = {} THEN <<>>
    ELSE LET k == CHOOSE x \in ks : \A y \in ks : x <= y
         IN <<k>> \o GlobSeq(ks \ {k})

\* -------------------------------------------------- clean_cache_by_size
\* (C17) the loop test with "at least" in place of "more than" the cap.
OverCap_atLeast(total_size, files) == total_size >= MAX_CACHE_SIZE_GB /\ files # <<>>

\* The loop test of clean_cache_by_size.
OverCap(total_size, files) == total_size > MAX_CACHE_SIZE_GB /\ files # <<>>

\* (C8) an "if" in place of the "while": one file at most leaves per pass.
EvictLoop_once(c, files, total_size, bad) ==
    IF OverCap(total_size, files) /\ Head(files) \notin bad
    THEN [c EXCEPT ![Head(files)] = NoFile]
    ELSE c

\* The while loop of clean_cache_by_size.  An unlink that raises leaves the
\* loop through the function's single except clause: the pass ends there.
RECURSIVE EvictLoop(_, _, _, _)
EvictLoop(c, files, total_size, bad) ==
    IF OverCap(total_size, files)
    THEN LET oldest == Head(files) IN
         IF oldest \in bad THEN c
         ELSE EvictLoop([c EXCEPT ![oldest] = NoFile], Tail(files),
                        total_size - c[oldest].size, bad)
    ELSE c

clean_cache_by_size(c, bad) ==
    EvictLoop(c, SortByMtime(c, Glob(c)), TotalSize(c), bad)

\* ------------------------------------------------------ clean_old_files
\* (C10) the comparison with the TTL taken as "at least".
Expired_atLeast(file_age, days) == file_age >= days

\* file_age > timedelta(days=days)
Expired(file_age, days) == file_age > days

\* The for loop of clean_old_files: the try/except is inside the loop, so an
\* unlink that raises skips that file only.
RECURSIVE AgeLoop(_, _, _, _, _)
AgeLoop(c, files, days, t, bad) ==
    IF files = <<>> THEN c
    ELSE LET file == Head(files)
             file_age == t - c[file].mtime
         IN IF Expired(file_age, days) /\ file \notin bad
            THEN AgeLoop([c EXCEPT ![file] = NoFile], Tail(files), days, t, bad)
            ELSE AgeLoop(c, Tail(files), days, t, bad)

clean_old_files(c, days, t, bad) == AgeLoop(c, GlobSeq(Glob(c)), days, t, bad)

clean_old_cache(c, t, bad) == clean_old_files(c, CACHE_EXPIRE_DAYS, t, bad)

\* ---------------------------------------------------------- the counters
\* (C7) a hit counted as a successful download at the lookup already.
CacheHit_asSuccess(s) ==
    [s EXCEPT !.cache_hits = @ + 1, !.successful_downloads = @ + 1]

CacheHit(s) == [s EXCEPT !.cache_hits = @ + 1]
Requested(s) == [s EXCEPT !.total_requests = @ + 1]
Succeeded(s) == [s EXCEPT !.successful_downloads = @ + 1]
\* (C18) an except clause that does not count the failure.
Failed_uncounted(s) == s

Failed(s) == [s EXCEPT !.failed_downloads = @ + 1]

\* (C16) the request counted before the test for a link.
NotFound_counted(s) == Requested(s)

\* The counters after a text without a link: handle_links returns at line
\* 230, before the first counter is touched.
NotFound(s) == s

NoEvents == [hit |-> 0, success |-> 0, failure |-> 0]

\* What one step added to the counters, attributed to invocation r.
Emit(r, s, t) ==
    [emitted EXCEPT ![r] =
        [hit |-> @.hit + (t.cache_hits - s.cache_hits),
         success |-> @.success + (t.successful_downloads - s.successful_downloads),
         failure |-> @.failure + (t.failed_downloads - s.failed_downloads)]]

\* (C2) yt-dlp started without blocking, as with asyncio's subprocesses.
LoopFree_async == TRUE

\* subprocess.run blocks the event loop: no handler runs while it is busy.
LoopFree == proc = NoReq

\* ------------------------------------------------------------------ Init
\* Files a former run left in CACHE_DIR, still within the TTL.
FreshFiles ==
    {NoFile} \cup {File(s, StartTime - CACHE_EXPIRE_DAYS) : s \in 1..MAX_FILE_SIZE}

\* Files a former run left in CACHE_DIR: any size up to just over the cap,
\* expired or not.
AnyFiles ==
    {NoFile} \cup {File(s, m) : s \in 1..(MAX_CACHE_SIZE_GB + 1),
                                m \in (StartTime - CACHE_EXPIRE_DAYS - 1)..(StartTime - CACHE_EXPIRE_DAYS)}

\* No handler has run yet and no pass has been recorded.
InitIdle ==
    /\ pc = [r \in Reqs |-> "idle"]
    /\ url = [r \in Reqs |-> NoUrl]
    /\ wait_msg = [r \in Reqs |-> FALSE]
    /\ proc = NoReq
    /\ bot_stats = [total_requests |-> 0, successful_downloads |-> 0,
                    failed_downloads |-> 0, cache_hits |-> 0]
    /\ launched = [r \in Reqs |-> 0]
    /\ failure = [r \in Reqs |-> "none"]
    /\ emitted = [r \in Reqs |-> NoEvents]
    /\ early = [r \in Reqs |-> FALSE]
    /\ fetched = FALSE
    /\ fetchPre = EmptyDir
    /\ bootDir = EmptyDir
    /\ streak = 0
    /\ firstEvicted = FALSE
    /\ lastEvicted = FALSE

InitRun ==
    /\ phase = "boot"
    /\ now = StartTime
    /\ InitIdle

\* No text is being classified.
InitQuiet ==
    /\ text = None
    /\ tagged = NoTag

\* The directories a former run over the links ls can have left.
DirsOf(ls, files) ==
    {c \in [Keys -> files] : \A u \in Urls \ ls : c[get_url_hash(u)] = NoFile}

Init ==
    /\ InitRun
    /\ InitQuiet
    /\ quota = MaxReq
    /\ links = 1..NumUrls
    /\ cache \in DirsOf(links, FreshFiles)
    /\ stuck = {}

InitBusy ==
    /\ InitRun
    /\ InitQuiet
    /\ quota = MaxReq + 1
    /\ links = Urls
    /\ cache \in DirsOf(links, FreshFiles)
    /\ stuck = {}

InitBoot ==
    /\ InitRun
    /\ InitQuiet
    /\ quota = 0
    /\ links = Urls
    /\ cache \in DirsOf(links, AnyFiles)
    /\ stuck \in {b \in SUBSET Glob(cache) : Cardinality(b) <= 1}

\* The classifier alone: any text, and nothing else going on.
InitClassify ==
    /\ InitRun
    /\ text \in Texts
    /\ tagged = NoTag
    /\ quota = 0
    /\ links = {}
    /\ cache = EmptyDir
    /\ stuck = {}

\* ------------------------------------------------ the record of passes
\* A size pass has run and turned directory c into d.
SizePassed(c, d) ==
    /\ streak' = IF streak < 2 THEN streak + 1 ELSE 2
    /\ firstEvicted' = IF streak = 0 THEN d # c ELSE firstEvicted
    /\ lastEvicted' = (d # c)

\* A step other than a size pass has turned directory c into d, or hit it.
Touched(c, d, hit) ==
    IF d # c \/ hit
    THEN streak' = 0 /\ firstEvicted' = FALSE /\ lastEvicted' = FALSE
    ELSE UNCHANGED <<streak, firstEvicted, lastEvicted>>

\* ------------------------------------------------------------ on_startup
\* clean_old_cache(), the first cache pass of on_startup.
StartupAge ==
    /\ phase = "boot"
    /\ phase' = "aged"
    /\ cache' = clean_old_cache(cache, now, stuck)
    /\ bootDir' = cache
    /\ Touched(cache, cache', FALSE)
    /\ UNCHANGED <<classifier, now, stuck, quota, handlers>>

\* clean_cache_by_size(), the second cache pass; polling starts after it.
StartupSize ==
    /\ phase = "aged"
    /\ phase' = "polling"
    /\ cache' = clean_cache_by_size(cache, stuck)
    /\ bootDir' = EmptyDir
    /\ SizePassed(cache, cache')
    /\ UNCHANGED <<classifier, now, stuck, quota, handlers>>

\* The bot process is stopped and started again: on_startup runs anew.
Restart ==
    /\ phase = "polling"
    /\ \A r \in Reqs : pc[r] = "idle"
    /\ phase' = "boot"
    /\ UNCHANGED <<classifier, now, cache, stuck, quota, handlers, passes>>

\* A day passes.
Tick ==
    /\ phase = "polling"
    /\ now < MaxTime
    /\ now' = now + 1
    /\ UNCHANGED <<classifier, phase, cache, stuck, quota, handlers, passes>>

\* ---------------------------------------------------------- handle_links
\* (C14) an except clause that counts the failure and answers nothing: the
\* handler goes on to its finally clause.
Raise_silent(r, exc, s) ==
    /\ bot_stats' = Failed(s)
    /\ failure' = [failure EXCEPT ![r] = exc]
    /\ pc' = [pc EXCEPT ![r] = "finally"]

\* (C15) an except clause that tries the download again after a first
\* timeout in place of reporting it.
Raise_retry(r, exc, s) ==
    IF exc = "TimeoutExpired" /\ launched[r] = 1
    THEN /\ bot_stats' = s
         /\ failure' = failure
         /\ pc' = [pc EXCEPT ![r] = "waitmsg"]
    ELSE /\ bot_stats' = Failed(s)
         /\ failure' = [failure EXCEPT ![r] = exc]
         /\ pc' = [pc EXCEPT ![r] = "failing"]

\* The except clauses of handle_links: count the failure, then await the
\* notification.
Raise(r, exc, s) ==
    /\ bot_stats' = Failed(s)
    /\ failure' = [failure EXCEPT ![r] = exc]
    /\ pc' = [pc EXCEPT ![r] = "failing"]

\* Lines 265-270: the size check on the selected file, then the await of
\* answer_video.
CheckAndSend(r, c, k, s) ==
    IF c[k].size > MAX_FILE_SIZE
    THEN Raise(r, "ValueError", s)
    ELSE /\ bot_stats' = s
         /\ failure' = failure
         /\ pc' = [pc EXCEPT ![r] = "sending"]

\* A message arrives and handle_links runs up to its first await.
Accept(r, u) ==
    /\ phase = "polling"
    /\ LoopFree
    /\ r <= quota
    /\ u \in links \cup {NoUrl}
    /\ pc[r] = "idle"
    /\ \A q \in Reqs : q < r => pc[q] # "idle"
    /\ url' = [url EXCEPT ![r] = u]
    /\ IF u = NoUrl
       THEN /\ pc' = [pc EXCEPT ![r] = "nolink"]
            /\ bot_stats' = NotFound(bot_stats)
            /\ UNCHANGED <<cache, failure, emitted, early>>
            /\ Touched(cache, cache, FALSE)
       ELSE LET k == get_url_hash(u)
                s == Requested(bot_stats)
            IN IF Exists(cache, k)
               THEN /\ cache' = [cache EXCEPT ![k].accessed = now]
                    /\ CheckAndSend(r, cache, k, CacheHit(s))
                    /\ emitted' = Emit(r, bot_stats, bot_stats')
                    /\ Touched(cache, cache', TRUE)
                    /\ UNCHANGED early
               ELSE /\ pc' = [pc EXCEPT ![r] = "waitmsg"]
                    /\ bot_stats' = s
                    /\ early' = [early EXCEPT ![r] = ~fetched]
                    /\ UNCHANGED <<cache, failure, emitted>>
                    /\ Touched(cache, cache, FALSE)
    /\ UNCHANGED <<classifier, phase, now, stuck, quota, links, wait_msg, proc, launched,
                   fetched, fetchPre, bootDir>>

\* The handler returns: its locals are gone.
Return(r) ==
    /\ pc' = [pc EXCEPT ![r] = "done"]
    /\ url' = [url EXCEPT ![r] = NoUrl]
    /\ wait_msg' = [wait_msg EXCEPT ![r] = FALSE]
    /\ launched' = [launched EXCEPT ![r] = 0]
    /\ failure' = [failure EXCEPT ![r] = "none"]
    /\ early' = [early EXCEPT ![r] = FALSE]

\* "Not found" has been answered; the handler returns.
NoLinkReply(r) ==
    /\ LoopFree
    /\ pc[r] = "nolink"
    /\ Return(r)
    /\ UNCHANGED <<classifier, phase, now, cache, stuck, quota, links, proc, bot_stats, emitted,
                   fetched, fetchPre, passes>>

\* The wait message has been answered; download_video runs the size pass and
\* starts yt-dlp with subprocess.run, which blocks the event loop.
Download(r) ==
    /\ LoopFree
    /\ pc[r] = "waitmsg"
    /\ wait_msg' = [wait_msg EXCEPT ![r] = TRUE]
    /\ fetchPre' = cache
    /\ cache' = clean_cache_by_size(cache, stuck)
    /\ SizePassed(cache, cache')
    /\ proc' = r
    /\ launched' = [launched EXCEPT ![r] = @ + 1]
    /\ pc' = [pc EXCEPT ![r] = "running"]
    /\ UNCHANGED <<classifier, phase, now, stuck, quota, links, url, bot_stats, failure, emitted,
                   early, fetched, bootDir>>

\* What yt-dlp leaves under output_path when it exits with status 0: the
\* artifact it wrote, or the file that was already there.
Written(c, k, size, t) ==
    {[size |-> size, mtime |-> t, accessed |-> t, whole |-> TRUE]}
        \cup (IF Exists(c, k) THEN {c[k]} ELSE {})

\* What a yt-dlp killed at the timeout leaves under output_path: what was
\* there before, or the part it had written so far.  Nothing in
\* download_video or in the except clauses removes it.
Leftover(c, k, t) ==
    {c[k]} \cup (IF Exists(c, k) THEN {}
                 ELSE {[size |-> 1, mtime |-> t, accessed |-> t, whole |-> FALSE]})

\* subprocess.run returns: yt-dlp exited with status 0.  download_video
\* returns output_path and handle_links goes on to the size check.
ToolSuccess(r, size) ==
    /\ proc = r
    /\ pc[r] = "running"
    /\ LET k == get_url_hash(url[r]) IN
       \E f \in Written(cache, k, size, now) :
          /\ cache' = [cache EXCEPT ![k] = f]
          /\ CheckAndSend(r, cache', k, bot_stats)
          /\ fetched' = TRUE
          /\ Touched(cache, cache', FALSE)
    /\ proc' = NoReq
    /\ fetchPre' = EmptyDir
    /\ emitted' = Emit(r, bot_stats, bot_stats')
    /\ UNCHANGED <<classifier, phase, now, stuck, quota, links, url, wait_msg, launched, early,
                   bootDir>>

\* subprocess.run raises CalledProcessError (check=True, non-zero status).
ToolError(r) ==
    /\ proc = r
    /\ pc[r] = "running"
    /\ Raise(r, "CalledProcessError", bot_stats)
    /\ fetched' = TRUE
    /\ proc' = NoReq
    /\ fetchPre' = EmptyDir
    /\ emitted' = Emit(r, bot_stats, bot_stats')
    /\ UNCHANGED <<classifier, phase, now, cache, stuck, quota, links, url, wait_msg, launched,
                   early, passes>>

\* subprocess.run raises TimeoutExpired after killing yt-dlp (timeout=120).
ToolTimeout(r) ==
    /\ proc = r
    /\ pc[r] = "running"
    /\ LET k == get_url_hash(url[r]) IN
       \E f \in Leftover(cache, k, now) :
          /\ cache' = [cache EXCEPT ![k] = f]
          /\ fetched' = TRUE
          /\ Touched(cache, cache', FALSE)
    /\ Raise(r, "TimeoutExpired", bot_stats)
    /\ proc' = NoReq
    /\ fetchPre' = EmptyDir
    /\ emitted' = Emit(r, bot_stats, bot_stats')
    /\ UNCHANGED <<classifier, phase, now, stuck, quota, links, url, wait_msg, launched, early,
                   bootDir>>

\* The finally clause of handle_links.  With a wait message it awaits
\* bot.delete_message; without one the handler returns at once.  file_path
\* starts with CACHE_DIR, so async_remove_file is never called.
Cleanup(r) ==
    IF wait_msg[r]
    THEN /\ pc' = [pc EXCEPT ![r] = "finally"]
         /\ emitted' = Emit(r, bot_stats, bot_stats')
         /\ UNCHANGED <<url, wait_msg, launched, failure, early>>
    ELSE /\ Return(r)
         /\ emitted' = [emitted EXCEPT ![r] = NoEvents]

\* answer_video returns, or raises because the file it was to upload is
\* gone; when the file is gone either can happen, the upload having opened
\* it or not.  The Telegram API itself is taken to deliver.
SendDone(r, ok) ==
    /\ LoopFree
    /\ pc[r] = "sending"
    /\ ok \/ ~Exists(cache, get_url_hash(url[r]))
    /\ IF ok
       THEN /\ bot_stats' = Succeeded(bot_stats)
            /\ Cleanup(r)
       ELSE /\ Raise(r, "FileNotFoundError", bot_stats)
            /\ emitted' = Emit(r, bot_stats, bot_stats')
            /\ UNCHANGED <<url, wait_msg, launched, early>>
    /\ UNCHANGED <<classifier, phase, now, cache, stuck, quota, links, proc, fetched, fetchPre, passes>>

\* The exceptions the try block of handle_links raises in the model.
Exceptions == {"TimeoutExpired", "CalledProcessError", "ValueError", "FileNotFoundError"}

\* The text the except clause that catches exc answers with: ValueError and
\* every other exception reach the last clause, except Exception.
Notification(exc) ==
    IF exc = "TimeoutExpired" THEN "download timed out, try again"
    ELSE IF exc = "CalledProcessError" THEN "download failed, check the link"
    ELSE "unexpected error, try another link"

\* The failure notification has been answered.
Notify(r) ==
    /\ LoopFree
    /\ pc[r] = "failing"
    /\ bot_stats' = bot_stats
    /\ Cleanup(r)
    /\ UNCHANGED <<classifier, phase, now, cache, stuck, quota, links, proc, fetched, fetchPre, passes>>

\* finally: bot.delete_message of the wait message has returned.
Finally(r) ==
    /\ LoopFree
    /\ pc[r] = "finally"
    /\ Return(r)
    /\ emitted' = [emitted EXCEPT ![r] = NoEvents]
    /\ UNCHANGED <<classifier, phase, now, cache, stuck, quota, links, proc, bot_stats, fetched, fetchPre, passes>>

\* Lines 223-236 of handle_links on the text: extract_url, and for a url
\* get_platform, whose result is the key counted in platform_stats.
Classify ==
    /\ text # None
    /\ tagged = NoTag
    /\ LET u == extract_url(text) IN
       tagged' = [url |-> u,
                  platform |-> IF u = None THEN "none" ELSE get_platform(u)]
    /\ UNCHANGED <<text, phase, now, cache, stuck, quota, handlers, passes>>

\* ------------------------------------------------------- specifications
Next ==
    \/ StartupAge
    \/ StartupSize
    \/ \E r \in Reqs, u \in Urls \cup {NoUrl} : Accept(r, u)
    \/ \E r \in Reqs : NoLinkReply(r)
    \/ \E r \in Reqs : Download(r)
    \/ \E r \in Reqs, size \in 1..MaxSize : ToolSuccess(r, size)
    \/ \E r \in Reqs : ToolError(r)
    \/ \E r \in Reqs : ToolTimeout(r)
    \/ \E r \in Reqs, ok \in BOOLEAN : SendDone(r, ok)
    \/ \E r \in Reqs : Notify(r)
    \/ \E r \in Reqs : Finally(r)
    \/ Tick

NextBoot ==
    \/ StartupAge
    \/ StartupSize
    \/ Restart
    \/ Tick

Spec == Init /\ [][Next]_vars

SpecBusy == InitBusy /\ [][Next]_vars

SpecBoot == InitBoot /\ [][NextBoot]_vars

SpecClassify == InitClassify /\ [][Classify]_vars

\* A step of a handler that has been started: all of NextLive but Accept.
Progress ==
    \E r \in Reqs :
        \/ NoLinkReply(r)
        \/ Download(r)
        \/ \E size \in 1..MaxSize : ToolSuccess(r, size)
        \/ ToolError(r)
        \/ ToolTimeout(r)
        \/ \E ok \in BOOLEAN : SendDone(r, ok)
        \/ Notify(r)
        \/ Finally(r)

\* The event loop does not stop while a handler is ready, the Telegram API
\* answers every await, and subprocess.run returns or raises within its
\* timeout: some started handler always goes on.
Fairness == WF_vars(Progress)

\* The handlers alone, from the moment polling starts: on_startup has run
\* and the day does not change.
InitLive ==
    /\ phase = "polling"
    /\ now = StartTime
    /\ InitIdle
    /\ InitQuiet
    /\ quota = MaxReq
    /\ links = 1..NumUrls
    /\ cache \in DirsOf(links, FreshFiles)
    /\ stuck = {}

NextLive ==
    \/ \E r \in Reqs, u \in Urls \cup {NoUrl} : Accept(r, u)
    \/ \E r \in Reqs : NoLinkReply(r)
    \/ \E r \in Reqs : Download(r)
    \/ \E r \in Reqs, size \in 1..MaxSize : ToolSuccess(r, size)
    \/ \E r \in Reqs : ToolError(r)
    \/ \E r \in Reqs : ToolTimeout(r)
    \/ \E r \in Reqs, ok \in BOOLEAN : SendDone(r, ok)
    \/ \E r \in Reqs : Notify(r)
    \/ \E r \in Reqs : Finally(r)

SpecLive == InitLive /\ [][NextLive]_vars /\ Fairness

\* The handlers from the moment polling starts, over any directory the
\* passes of on_startup can have left of a former run's files for any link.
InitEvict ==
    /\ phase = "polling"
    /\ now = StartTime
    /\ InitIdle
    /\ InitQuiet
    /\ quota = MaxReq
    /\ links = 1..NumUrls
    /\ cache \in {c \in DirsOf(Urls, FreshFiles) : TotalSize(c) <= MAX_CACHE_SIZE_GB}
    /\ stuck = {}

SpecEvict == InitEvict /\ [][NextLive]_vars

TypeOK ==
    /\ phase \in {"boot", "aged", "polling"}
    /\ now \in StartTime..MaxTime
    /\ proc \in Reqs \cup {NoReq}
    /\ \A r \in Reqs : pc[r] \in {"idle", "nolink", "waitmsg", "running",
                                  "sending", "failing", "finally", "done"}

\* ================================================================ claims
KeyOf(r) == get_url_hash(url[r])

\* A step in which clean_cache_by_size runs: in on_startup, or at the head
\* of download_video.
SizePassStep ==
    \/ phase = "aged" /\ phase' = "polling"
    \/ proc = NoReq /\ proc' # NoReq

\* ---- C1
\* C1 (single-flight): requests for the same URL that were all accepted
\* while no file for its key was cached and no fetch had finished start the
\* downloader once in total; in particular no two of them both start it.
C1_SingleFlight ==
    \A r1, r2 \in Reqs :
        (r1 # r2 /\ early[r1] /\ early[r2] /\ url[r1] = url[r2])
            => launched[r1] + launched[r2] <= 1

\* ---- C2
\* C2: in every reachable state at most one downloader process per cache
\* key is running, however many requests for the key are pending.
C2_OneProcessPerKey ==
    \A k \in Keys :
        Cardinality({r \in Reqs : pc[r] = "running" /\ KeyOf(r) = k}) <= 1

\* One request's downloader runs while another request for the same URL has
\* been accepted and waits.
C2_Witness ==
    \E r1, r2 \in Reqs :
        /\ r1 # r2
        /\ pc[r1] = "running"
        /\ pc[r2] = "waitmsg"
        /\ url[r1] = url[r2]

\* ---- C3
\* C3: a size pass that finds the cache over the cap never removes an entry
\* that was accessed (published or hit) more recently than an entry that
\* survives the pass.
C3_EvictsLeastRecentlyAccessed ==
    [][(SizePassStep /\ TotalSize(cache) > MAX_CACHE_SIZE_GB) =>
          \A k, j \in Glob(cache) :
              (~Exists(cache', k) /\ Exists(cache', j))
                  => cache[k].accessed <= cache[j].accessed]_vars

\* ---- C4
\* C4: when a download that writes a new entry completes, the aggregate
\* size of the cache is at or under the cap.  Stated for the case most
\* favourable to the claim, an artifact within the per-file ceiling.
C4_WriteKeepsCap ==
    [][\A r \in Reqs :
          (/\ pc[r] = "running"
           /\ pc'[r] # "running"
           /\ ~Exists(cache, KeyOf(r))
           /\ Exists(cache', KeyOf(r))
           /\ cache'[KeyOf(r)].whole
           /\ cache'[KeyOf(r)].size <= MAX_FILE_SIZE)
              => TotalSize(cache') <= MAX_CACHE_SIZE_GB]_vars

\* ---- C5
\* C5: when the downloader exceeds the timeout, the request's outcome is
\* Timeout, no entry for its key is visible afterwards and the cache holds
\* exactly the entries it held when the request's fetch was called.  Stated
\* for the case most favourable to the claim, a killed downloader that left
\* nothing under its output path.
C5_TimeoutLeavesCacheAsBefore ==
    [][\A r \in Reqs :
          (pc[r] = "running" /\ failure'[r] = "TimeoutExpired" /\ cache' = cache)
              => /\ ~Exists(cache', KeyOf(r))
                 /\ Glob(cache') = Glob(fetchPre)]_vars

\* ---- C6
\* C6: a request whose artifact exceeds the per-file ceiling fails and the
\* artifact is discarded: when the request's handler returns, no entry for
\* its key is in the cache.
C6_OversizeDiscarded ==
    [][\A r \in Reqs :
          (pc[r] # "done" /\ pc'[r] = "done" /\ failure[r] = "ValueError")
              => ~Exists(cache', KeyOf(r))]_vars

\* ---- C7
\* The counter increments of the step being taken.
StepHits == bot_stats'.cache_hits - bot_stats.cache_hits
StepSuccesses == bot_stats'.successful_downloads - bot_stats.successful_downloads
StepFailures == bot_stats'.failed_downloads - bot_stats.failed_downloads

\* Invocation r of handle_links, which found a link, returns in this step.
Returns(r) == pc[r] \in {"sending", "failing", "finally"} /\ pc'[r] = "done"

C8_SecondPassRemovesNothing == streak = 2 => ~lastEvicted

\* Two size passes have run in a row and the first one removed entries.
C8_Witness == streak = 2 /\ firstEvicted

\* ---- C9
\* C9: in both policies an entry whose deletion fails is skipped and the
\* pass goes on.  After the age pass every expired entry that can be deleted
\* is gone; after the size pass the cache is at or under the cap, or every
\* entry that can be deleted is gone.  (For SpecBoot, where only the passes
\* change the directory.)
C9_FailureDoesNotAbortPass ==
    /\ phase = "aged" =>
          \A k \in Glob(cache) :
              k \in stuck \/ now - cache[k].mtime <= CACHE_EXPIRE_DAYS
    /\ phase = "polling" =>
          \/ TotalSize(cache) <= MAX_CACHE_SIZE_GB
          \/ Glob(cache) \subseteq stuck

\* ---- C10
\* C10: the age pass removes every entry older than the TTL (whose deletion
\* does not fail), whatever the aggregate size, and leaves every other entry
\* as it was.
C10_AgePassRemovesExactlyExpired ==
    phase = "aged" =>
        \A k \in Keys :
            IF /\ Exists(bootDir, k)
               /\ now - bootDir[k].mtime > CACHE_EXPIRE_DAYS
               /\ k \notin stuck
            THEN ~Exists(cache, k)
            ELSE cache[k] = bootDir[k]

\* The age pass has removed an entry from a cache that was under the cap and
\* kept an entry whose age is exactly the TTL.
C10_Witness ==
    /\ phase = "aged"
    /\ TotalSize(bootDir) <= MAX_CACHE_SIZE_GB
    /\ \E k \in Keys : Exists(bootDir, k) /\ ~Exists(cache, k)
    /\ \E j \in Keys : Exists(cache, j) /\ now - cache[j].mtime = CACHE_EXPIRE_DAYS

\* ---- C20
\* The platform each supported link shape belongs to, as the /start message
\* lists them.
ShapePlatform(host) ==
    IF host \in {"vm.tiktok.com", "www.tiktok.com"} THEN "tiktok"
    ELSE IF host = "www.instagram.com/reel" THEN "instagram"
    ELSE "youtube"

\* C20: for every url the classifier accepts, the platform counted is the
\* platform of the link shape that matched, whatever follows the matched
\* prefix inside the url; in particular it is never "other".
C20_PlatformOfMatchedShape ==
    tagged.url # None =>
        /\ tagged.platform = ShapePlatform(tagged.url[2])
        /\ tagged.platform # "other"

\* ---- C11
\* Invocation r of handle_links finds its file in the cache in this step.
Hits(r) == pc[r] = "idle" /\ url'[r] # NoUrl /\ Exists(cache, get_url_hash(url'[r]))

\* C11: a file a request finds under the final path of its key is the
\* complete product of a fetch that finished with success; none is a part
\* or the leaving of a fetch that failed.  Stated for the case most
\* favourable to the claim, a downloader that never leaves a part under its
\* output path: the file found is then no leaving of a fetch that failed
\* with an oversize result.
C11_HitFindsProductOfSuccess ==
    [][\A r \in Reqs :
          (Hits(r) /\ cache[get_url_hash(url'[r])].whole)
              => cache[get_url_hash(url'[r])].size <= MAX_FILE_SIZE]_vars

\* ---- C12
\* An eviction pass runs in this step: the age pass of on_startup or a size
\* pass.
EvictionStep == SizePassStep \/ (phase = "boot" /\ phase' = "aged")

\* C12: after a request has missed the cache and the downloader has exited
\* with status 0, an entry for the key is in the cache and the request ends
\* as a success; the entry stays until an eviction pass removes it, so that
\* every later request for the url finds it.  Stated for the case most
\* favourable to the claim, an artifact within the per-file ceiling.
C12_MissThenSuccessThenHits ==
    [][\A r \in Reqs :
          /\ (pc[r] = "running" /\ pc'[r] = "sending") => Exists(cache', KeyOf(r))
          /\ (pc[r] = "sending" /\ launched[r] = 1) => pc'[r] # "failing"
          /\ \A k \in Keys :
                (Exists(cache, k) /\ ~Exists(cache', k)) => EvictionStep]_vars

\* ---- C13
\* The failure kind of the pipeline an exception of handle_links stands for.
FailureKind(exc) ==
    IF exc = "TimeoutExpired" THEN "Timeout"
    ELSE IF exc = "CalledProcessError" THEN "ToolError"
    ELSE IF exc = "ValueError" THEN "OversizeResult"
    ELSE "Unexpected"

\* C13: the notification a failed request is answered with is the
\* notification of its failure kind alone: a failure of any other kind is
\* answered with a different text.
C13_DistinctNotifications ==
    \A r \in Reqs :
        pc[r] = "failing" =>
            \A e \in Exceptions :
                FailureKind(e) # FailureKind(failure[r])
                    => Notification(e) # Notification(failure[r])

\* ---- C14
\* Invocation r has found a link and has not had its terminal reply yet.
Pending(r) == pc[r] \in {"waitmsg", "running", "sending", "failing"}

\* The terminal reply of invocation r is delivered in this step: answer_video
\* returns, or the message.answer of an except clause does.
Reply(r) == pc[r] \in {"sending", "failing"} /\ pc'[r] \in {"finally", "done"}

\* C14: every request in which a link was found gets exactly one terminal
\* reply, the video or a failure notification, whatever the other requests
\* and the downloader do: it stops waiting for its reply by getting it and
\* in no other way, never waits for one again, and does not wait for ever:
\* whenever requests wait for their replies, a moment comes at which none of
\* them, nor any request accepted since, still waits.
C14_ExactlyOneReplyEventually ==
    /\ [][\A r \in Reqs :
             /\ (Pending(r) /\ pc'[r] \notin {"waitmsg", "running", "sending", "failing"})
                    => Reply(r)
             /\ pc[r] \in {"finally", "done"} => pc'[r] \in {"finally", "done"}]_vars
    /\ (\E r \in Reqs : Pending(r)) ~> (\A r \in Reqs : ~Pending(r))

\* One request has been answered with the timeout notification while
\* another one, accepted meanwhile, is still waiting for its reply.
C14_Witness ==
    \E r1, r2 \in Reqs :
        /\ pc[r1] = "finally"
        /\ failure[r1] = "TimeoutExpired"
        /\ pc[r2] \in {"waitmsg", "running", "sending", "failing"}

\* ---- C15
\* C15: one request starts the downloader at most once, however its
\* download ends, and not at all when it found its file in the cache.
C15_AtMostOneLaunch ==
    \A r \in Reqs :
        /\ launched[r] <= 1
        /\ emitted[r].hit > 0 => launched[r] = 0

\* A request whose download failed has started the downloader once and is
\* being notified, while another request has found the file in the cache.
C15_Witness ==
    \E r1, r2 \in Reqs :
        /\ pc[r1] = "failing"
        /\ launched[r1] = 1
        /\ emitted[r2].hit = 1
        /\ launched[r2] = 0

\* ---- C16
\* A step of invocation r when its text holds no supported link: its
\* arrival, or its return once "not found" has been answered.
NoLinkStep(r) == pc'[r] # pc[r] /\ (pc'[r] = "nolink" \/ pc[r] = "nolink")

\* C16: a request whose text holds no supported link is answered "not
\* found" and is no error: it leaves the four counters and the cache as they
\* are, starts no downloader and raises nothing.
C16_NoLinkChangesNothing ==
    [][\A r \in Reqs :
          NoLinkStep(r) =>
              /\ bot_stats' = bot_stats
              /\ cache' = cache
              /\ proc' = proc
              /\ launched' = launched
              /\ failure' = failure
              /\ pc'[r] \in {"nolink", "done"}]_vars

\* A text without a link is being answered while a counted request is
\* being served.
C16_Witness ==
    \E r1, r2 \in Reqs :
        /\ pc[r1] = "sending"
        /\ pc[r2] = "nolink"
        /\ bot_stats.total_requests = 1

\* ---- C17
\* The entries the size pass of this step removes.
Removed == Glob(cache) \ Glob(cache')

\* C17: the size pass runs when a request that missed the cache starts the
\* downloader, before the downloader writes.  It removes nothing from a
\* cache at or under the cap.  From a cache over the cap it removes entries
\* oldest first, by the age of the file, and only while the aggregate size
\* is over the cap: the last entry it removed was removed from a cache still
\* over the cap, and with no deletion failing it ends at or under the cap.
C17_SizePassRemovesOnlyWhileOverCap ==
    [][/\ (\E r \in Reqs : launched'[r] = launched[r] + 1) => SizePassStep
       /\ SizePassStep =>
             /\ \A k \in Glob(cache') : cache'[k] = cache[k]
             /\ Glob(cache') \subseteq Glob(cache)
             /\ TotalSize(cache) <= MAX_CACHE_SIZE_GB => Removed = {}
             /\ \A k \in Removed, j \in Glob(cache') : cache[k].mtime <= cache[j].mtime
             /\ Removed # {} =>
                   \E l \in Removed :
                       /\ \A k \in Removed : cache[k].mtime <= cache[l].mtime
                       /\ TotalSize(cache') + cache[l].size > MAX_CACHE_SIZE_GB
             /\ stuck = {} => TotalSize(cache') <= MAX_CACHE_SIZE_GB]_vars

\* A request's download is running; the size pass at its start found the
\* cache over the cap and removed one entry of several.
C17_Witness ==
    /\ proc # NoReq
    /\ TotalSize(fetchPre) > MAX_CACHE_SIZE_GB
    /\ Glob(cache) # {}
    /\ Glob(cache) # Glob(fetchPre)

\* ---- C18
\* The requests counted in total_requests and not yet in successful_downloads
\* or failed_downloads.
Uncounted == {r \in Reqs : pc[r] \in {"waitmsg", "running", "sending"}}

\* C18 as stated: total_requests is the sum of successful_downloads,
\* failed_downloads and the number of accepted requests that have not had
\* their reply yet, and cache_hits is at most total_requests.
C18_CountersConserved ==
    /\ bot_stats.total_requests =
           bot_stats.successful_downloads + bot_stats.failed_downloads
               + Cardinality({r \in Reqs : Pending(r)})
    /\ bot_stats.cache_hits <= bot_stats.total_requests

\* C18 as amended: total_requests is the sum of successful_downloads,
\* failed_downloads and the number of accepted requests not yet counted as
\* either, a failed request being counted from the moment its exception is
\* caught, before its notification is sent; cache_hits is at most
\* total_requests; with no request in flight total_requests is the sum of the
\* other two.
C18_CountedConserved ==
    /\ bot_stats.total_requests =
           bot_stats.successful_downloads + bot_stats.failed_downloads
               + Cardinality(Uncounted)
    /\ bot_stats.cache_hits <= bot_stats.total_requests
    /\ (\A r \in Reqs : pc[r] \in {"idle", "done"}) =>
           bot_stats.total_requests =
               bot_stats.successful_downloads + bot_stats.failed_downloads

\* One request has been counted as failed and waits for its notification
\* while a second one, a cache hit, is being sent its video.
C18_Witness ==
    \E r1, r2 \in Reqs :
        /\ pc[r1] = "failing"
        /\ pc[r2] = "sending"
        /\ bot_stats.failed_downloads = 1
        /\ bot_stats.cache_hits = 1

\* ---- C19
\* C19: the file a request has selected to send, found in the cache or just
\* downloaded, stays in the cache while the request is sending it: no size
\* pass that another request runs meanwhile removes it.
C19_FileBeingSentIsKept ==
    [][\A r \in Reqs :
          (pc[r] = "sending" /\ pc'[r] = "sending" /\ Exists(cache, KeyOf(r)))
              => Exists(cache', KeyOf(r))]_vars
====
